---- MODULE Spec2Model ----
(***************************************************************************)
(* Model of the test plan's coordination protocol: sequence assignment,    *)
(* the publish_and_collect rendezvous, the named barriers and the          *)
(* enr_update scenario (src/main.rs, src/enr_update/mod.rs).               *)
(***************************************************************************)
EXTENDS Integers, Sequences, FiniteSets, TLC

\* ---------------------------------------------------------------- bounds
MaxInstances == 3
MaxEvents == 2
MaxAddr == 2
MaxTime == 2
TimedInstances == 2

\* ------------------------------------------------------------- constants
DISCOVERY_PORT == 9000

STATE_NETWORK_CONFIGURED == "state_network_configured"
STATE_COMPLETED_ESTABLISH_CONNECTIONS == "state_completed_establish_connections"
STATE_COMPLETED == "state_completed"
GET_INSTANCE_SEQ == "get_instance_seq"

StateNames ==
    {GET_INSTANCE_SEQ, STATE_NETWORK_CONFIGURED,
     STATE_COMPLETED_ESTABLISH_CONNECTIONS, STATE_COMPLETED}

Addrs == 1..MaxAddr

VARIABLES
    n,            \* run_parameters.test_instance_count
    pc,           \* position of each instance's main task
    seq,          \* sequence number of each instance (0: not yet assigned)
    counters,     \* sync service: one counter per state name
    topic,        \* sync service: payloads published on "publish_and_collect"
    participants, \* result of publish_and_collect (<<>> until it returns)
    watcher,      \* spawned task: "none", "running", "sent", "ended"
    eventStream,  \* Discv5 events queued for the watcher of each instance
    feedClosed,   \* the event stream of the instance has ended
    oneshot,      \* oneshot channel: <<"none">>, <<"empty">>, <<"ok", a>>, <<"closed">>
    sendCount,    \* number of sender.send calls of the watcher
    queries,      \* find_node_designated_peer calls: [target, ok]
    metric,       \* "The socket has been updated ..." message recorded
    recvErr,      \* "RecvError" logged
    success,      \* record_success called
    now,          \* wall clock (Local::now()), in seconds
    startedUpAt,  \* started_up_at of each instance
    emittedAt,    \* when the engine emitted its first SocketUpdated (-1: not yet)
    elapsed,      \* seconds reported by "The socket has been updated ..."
    crashedAt     \* where the instance stopped ("none": it has not)

vars == <<n, pc, seq, counters, topic, participants, watcher, eventStream,
          feedClosed, oneshot, sendCount, queries, metric,
          recvErr, success, now, startedUpAt, emittedAt, elapsed, crashedAt>>

Procs == 1..n

\* ------------------------------------------------------------ data model
Other == [type |-> "Other", addr |-> 0]
SocketUpdated(a) == [type |-> "SocketUpdated", addr |-> a]
Events == {Other} \cup {SocketUpdated(a) : a \in Addrs}

\* data_network_ip of an instance
DataNetworkIp(p) == 100 + p

\* Enr built by run(): no address for #1, ip + udp4(9000) otherwise
BuildEnr(p, s) ==
    IF s = 1
    THEN [node_id |-> p, ip4 |-> 0, udp4 |-> 0]
    ELSE [node_id |-> p, ip4 |-> DataNetworkIp(p), udp4 |-> DISCOVERY_PORT]

InstanceInfo(p) == [seq |-> seq[p], enr |-> BuildEnr(p, seq[p])]

\* serde_json::to_string of an InstanceInfo: the fields in declaration order
ToJson(info) == <<info.seq, <<info.enr.node_id, info.enr.ip4, info.enr.udp4>>>>

FromJsonLossy(j) ==
    [seq |-> j[1], enr |-> [node_id |-> 0, ip4 |-> j[2][2], udp4 |-> j[2][3]]]

\* serde_json::from_str
FromJson(j) ==
    [seq |-> j[1], enr |-> [node_id |-> j[2][1], ip4 |-> j[2][2], udp4 |-> j[2][3]]]

\* position of the main task in program order
Rank(l) ==
    CASE l = "start" -> 0
      [] l = "configure" -> 1
      [] l = "barrier_nc" -> 2
      [] l = "construct" -> 3
      [] l = "publish" -> 4
      [] l = "collect" -> 5
      [] l = "watcher" -> 6
      [] l = "fanout" -> 7
      [] l = "signal_ce" -> 8
      [] l = "wait_ce" -> 9
      [] l = "observe" -> 10
      [] l = "signal_completed" -> 11
      [] l = "wait_completed" -> 12
      [] l = "success" -> 13
      [] l = "done" -> 14
      [] OTHER -> -1

Labels ==
    {"start", "configure", "barrier_nc", "construct", "publish", "collect",
     "watcher", "fanout", "signal_ce", "wait_ce", "observe",
     "signal_completed", "wait_completed", "success", "done", "failed",
     "crashed"}

TypeOK ==
    /\ n \in 1..MaxInstances
    /\ pc \in [Procs -> Labels]
    /\ seq \in [Procs -> 0..n]
    /\ counters \in [StateNames -> 0..n]
    /\ sendCount \in [Procs -> 0..1]
    /\ Len(topic) <= n
    /\ watcher \in [Procs -> {"none", "running", "sent", "ended"}]
    /\ feedClosed \in [Procs -> BOOLEAN]
    /\ \A p \in Procs : Len(eventStream[p]) <= MaxEvents
    /\ metric \in [Procs -> BOOLEAN]
    /\ recvErr \in [Procs -> BOOLEAN]
    /\ success \in [Procs -> BOOLEAN]

Init ==
    /\ n \in 1..MaxInstances
    /\ pc = [p \in 1..n |-> "start"]
    /\ seq = [p \in 1..n |-> 0]
    /\ counters = [s \in StateNames |-> 0]
    /\ topic = <<>>
    /\ participants = [p \in 1..n |-> <<>>]
    /\ watcher = [p \in 1..n |-> "none"]
    /\ eventStream = [p \in 1..n |-> <<>>]
    /\ feedClosed = [p \in 1..n |-> FALSE]
    /\ oneshot = [p \in 1..n |-> <<"none">>]
    /\ sendCount = [p \in 1..n |-> 0]
    /\ queries = [p \in 1..n |-> <<>>]
    /\ metric = [p \in 1..n |-> FALSE]
    /\ recvErr = [p \in 1..n |-> FALSE]
    /\ success = [p \in 1..n |-> FALSE]
    /\ now = 0
    /\ startedUpAt = [p \in 1..n |-> 0]
    /\ emittedAt = [p \in 1..n |-> -1]
    /\ elapsed = [p \in 1..n |-> 0]
    /\ crashedAt = [p \in 1..n |-> "none"]

\* ------------------------------------------------------ sync service use
SignalTwice(name) == [counters EXCEPT ![name] = @ + 2]

\* client.signal(name): the counter of the name after this announcement
Signal(name) == [counters EXCEPT ![name] = @ + 1]

BarrierTargetShort == n - 1

BarrierTargetLong == n + 1

\* expected count handed to barrier / signal_and_wait
BarrierTarget == n

\* client.barrier(name, target) has returned
BarrierReached(name) == counters[name] >= BarrierTarget

\* ------------------------------------------------------------- main.rs
GetInstanceSeqStale(p) ==
    /\ pc[p] = "start"
    /\ counters' = IF counters[GET_INSTANCE_SEQ] = 0
                   THEN Signal(GET_INSTANCE_SEQ) ELSE counters
    /\ seq' = [seq EXCEPT ![p] = counters'[GET_INSTANCE_SEQ]]
    /\ pc' = [pc EXCEPT ![p] = "configure"]
    /\ UNCHANGED <<n, topic, participants, watcher, eventStream,
                   feedClosed, oneshot, sendCount, queries,
                   metric, recvErr, success>>
    /\ UNCHANGED <<now, startedUpAt, emittedAt, elapsed, crashedAt>>

\* get_instance_seq: client.signal("get_instance_seq")
GetInstanceSeq(p) ==
    /\ pc[p] = "start"
    /\ counters' = Signal(GET_INSTANCE_SEQ)
    /\ seq' = [seq EXCEPT ![p] = counters'[GET_INSTANCE_SEQ]]
    /\ pc' = [pc EXCEPT ![p] = "configure"]
    /\ UNCHANGED <<n, topic, participants, watcher, eventStream,
                   feedClosed, oneshot, sendCount, queries,
                   metric, recvErr, success>>
    /\ UNCHANGED <<now, startedUpAt, emittedAt, elapsed, crashedAt>>

\* client.configure_network: the callback_state is signalled once the
\* network of this instance is configured
ConfigureNetwork(p) ==
    /\ pc[p] = "configure"
    /\ counters' = Signal(STATE_NETWORK_CONFIGURED)
    /\ pc' = [pc EXCEPT ![p] = "barrier_nc"]
    /\ UNCHANGED <<n, seq, topic, participants, watcher, eventStream,
                   feedClosed, oneshot, sendCount, queries,
                   metric, recvErr, success>>
    /\ UNCHANGED <<now, startedUpAt, emittedAt, elapsed, crashedAt>>

\* client.barrier(STATE_NETWORK_CONFIGURED, test_instance_count)
BarrierNetworkConfigured(p) ==
    /\ pc[p] = "barrier_nc"
    /\ BarrierReached(STATE_NETWORK_CONFIGURED)
    /\ pc' = [pc EXCEPT ![p] = "construct"]
    /\ UNCHANGED <<n, seq, counters, topic, participants, watcher,
                   eventStream, feedClosed, oneshot, sendCount, queries, metric, recvErr, success>>
    /\ UNCHANGED <<now, startedUpAt, emittedAt, elapsed, crashedAt>>

CollectCountShort == n - 1

\* number of records publish_and_collect reads: 0..test_instance_count
CollectCount == n

\* publish_and_collect: client.publish(TOPIC, to_string(&info))
Publish(p) ==
    /\ pc[p] = "publish"
    /\ topic' = Append(topic, ToJson(InstanceInfo(p)))
    /\ pc' = [pc EXCEPT ![p] = "collect"]
    /\ UNCHANGED <<n, seq, counters, participants, watcher, eventStream,
                   feedClosed, oneshot, sendCount, queries, metric,
                   recvErr, success>>
    /\ UNCHANGED <<now, startedUpAt, emittedAt, elapsed, crashedAt>>

\* publish_and_collect: client.subscribe(TOPIC) reads the topic from its
\* start; the loop takes the first CollectCount payloads, each Some(Ok(other))
\* parsed and pushed, and Ok(vec) is returned
Collect(p) ==
    /\ pc[p] = "collect"
    /\ Len(topic) >= CollectCount
    /\ participants' = [participants EXCEPT
           ![p] = [k \in 1..CollectCount |-> FromJson(topic[k])]]
    /\ pc' = [pc EXCEPT ![p] = "watcher"]
    /\ UNCHANGED <<n, seq, counters, topic, watcher, eventStream, feedClosed,
                   oneshot, sendCount, queries, metric, recvErr, success>>
    /\ UNCHANGED <<now, startedUpAt, emittedAt, elapsed, crashedAt>>

CollectErrorPartial(p) ==
    /\ pc[p] = "collect"
    /\ participants' = [participants EXCEPT
           ![p] = [k \in 1..(IF Len(topic) < n THEN Len(topic) ELSE n) |->
                      FromJson(topic[k])]]
    /\ pc' = [pc EXCEPT ![p] = "watcher"]
    /\ UNCHANGED <<n, seq, counters, topic, watcher, eventStream, feedClosed,
                   oneshot, sendCount, queries, metric, recvErr, success,
                   now, startedUpAt, emittedAt, elapsed, crashedAt>>

\* publish_and_collect: Some(Err(e)) => return Err, None => unreachable!()
CollectError(p) ==
    /\ pc[p] = "collect"
    /\ pc' = [pc EXCEPT ![p] = "failed"]
    /\ UNCHANGED <<n, seq, counters, topic, participants, watcher,
                   eventStream, feedClosed, oneshot, sendCount, queries, metric, recvErr, success>>
    /\ UNCHANGED <<now, startedUpAt, emittedAt, elapsed, crashedAt>>

\* info.iter().position(|i| i.seq == instance_info.seq): 0 when None
Position(info, own) ==
    IF \E k \in 1..Len(info) : info[k].seq = own
    THEN CHOOSE k \in 1..Len(info) :
             /\ info[k].seq = own
             /\ \A j \in 1..(k - 1) : info[j].seq # own
    ELSE 0

RemoveAtNext(v, k) ==
    IF k < Len(v)
    THEN SubSeq(v, 1, k) \o SubSeq(v, k + 2, Len(v))
    ELSE SubSeq(v, 1, Len(v) - 1)

\* Vec::remove(pos), pos counted from 1 here
RemoveAt(v, k) == SubSeq(v, 1, k - 1) \o SubSeq(v, k + 1, Len(v))

\* collect_instance_info: the collected records without the caller's own
CollectInstanceInfo(info, own) ==
    IF Position(info, own) # 0 THEN RemoveAt(info, Position(info, own)) ELSE info

\* ------------------------------------------------------ enr_update/mod.rs
\* client.global_seq() == 1 when the Enr is built
IsBootstrap(p) == seq[p] = 1

\* run(): local Enr built, Discv5 server started, instance_info made
Construct(p) ==
    /\ pc[p] = "construct"
    /\ pc' = [pc EXCEPT ![p] = "publish"]
    /\ UNCHANGED <<n, seq, counters, topic, participants, watcher,
                   eventStream, feedClosed, oneshot, sendCount, queries, metric, recvErr, success>>
    /\ startedUpAt' = [startedUpAt EXCEPT ![p] = now]
    /\ UNCHANGED <<now, emittedAt, elapsed, crashedAt>>

WatcherRoleZeroBased(p) == seq[p] = 0

\* instance_info.seq == 1 guarding the watcher
WatcherRole(p) == seq[p] = 1

FanOutRoleAll(p) == seq[p] >= 1

\* instance_info.seq == 1 guarding the fan-out
FanOutRole(p) == seq[p] = 1

FanOutTargetsAll(p) == participants[p]

\* participants.iter().filter(|&p| p.seq != client.global_seq())
FanOutTargets(p) == SelectSeq(participants[p], LAMBDA i : i.seq # seq[p])

\* where the main task goes once k queries have been issued
AfterQueries(p, k) ==
    IF FanOutRole(p) /\ k < Len(FanOutTargets(p)) THEN "fanout" ELSE "signal_ce"

\* maybe_receiver: oneshot channel, event_stream(), task::spawn on #1
MaybeStartWatcher(p) ==
    /\ pc[p] = "watcher"
    /\ IF WatcherRole(p)
       THEN /\ oneshot' = [oneshot EXCEPT ![p] = <<"empty">>]
            /\ watcher' = [watcher EXCEPT ![p] = "running"]
       ELSE UNCHANGED <<oneshot, watcher>>
    /\ pc' = [pc EXCEPT ![p] = AfterQueries(p, 0)]
    /\ UNCHANGED <<n, seq, counters, topic, participants, eventStream,
                   feedClosed, sendCount, queries, metric,
                   recvErr, success>>
    /\ UNCHANGED <<now, startedUpAt, emittedAt, elapsed, crashedAt>>

AfterQueryBreak(p, ok, k) == IF ok THEN AfterQueries(p, k) ELSE "signal_ce"

AfterQueryAbort(p, ok, k) == IF ok THEN AfterQueries(p, k) ELSE "failed"

\* if let Err(e) = find_node_designated_peer(..) { error!(..) }: the loop
\* goes on whatever the outcome
AfterQuery(p, ok, k) == AfterQueries(p, k)

\* one iteration of the fan-out loop; ok is the outcome of the query
FanOutQuery(p, ok) ==
    /\ pc[p] = "fanout"
    /\ LET k == Len(queries[p]) + 1
       IN /\ k <= Len(FanOutTargets(p))
          /\ queries' = [queries EXCEPT
                 ![p] = Append(@, [target |-> FanOutTargets(p)[k], ok |-> ok])]
          /\ pc' = [pc EXCEPT ![p] = AfterQuery(p, ok, k)]
    /\ UNCHANGED <<n, seq, counters, topic, participants, watcher,
                   eventStream, feedClosed, oneshot, sendCount, metric, recvErr, success>>
    /\ UNCHANGED <<now, startedUpAt, emittedAt, elapsed, crashedAt>>

\* signal_and_wait(STATE_COMPLETED_ESTABLISH_CONNECTIONS, ..): the signal
SignalEstablished(p) ==
    /\ pc[p] = "signal_ce"
    /\ counters' = Signal(STATE_COMPLETED_ESTABLISH_CONNECTIONS)
    /\ pc' = [pc EXCEPT ![p] = "wait_ce"]
    /\ UNCHANGED <<n, seq, topic, participants, watcher, eventStream,
                   feedClosed, oneshot, sendCount, queries,
                   metric, recvErr, success>>
    /\ UNCHANGED <<now, startedUpAt, emittedAt, elapsed, crashedAt>>

\* signal_and_wait(STATE_COMPLETED_ESTABLISH_CONNECTIONS, ..): the barrier,
\* then record_message("peers: ..")
WaitEstablished(p) ==
    /\ pc[p] = "wait_ce"
    /\ BarrierReached(STATE_COMPLETED_ESTABLISH_CONNECTIONS)
    /\ pc' = [pc EXCEPT ![p] = "observe"]
    /\ UNCHANGED <<n, seq, counters, topic, participants, watcher,
                   eventStream, feedClosed, oneshot, sendCount, queries, metric, recvErr, success>>
    /\ UNCHANGED <<now, startedUpAt, emittedAt, elapsed, crashedAt>>

ObserveSkip(p) ==
    /\ pc[p] = "observe"
    /\ oneshot[p][1] \in {"none", "empty"}
    /\ pc' = [pc EXCEPT ![p] = "signal_completed"]
    /\ UNCHANGED <<n, seq, counters, topic, participants, watcher,
                   eventStream, feedClosed, oneshot, sendCount, queries,
                   metric, recvErr, success, now, startedUpAt, emittedAt,
                   elapsed, crashedAt>>

\* maybe_receiver is None
ObserveNone(p) ==
    /\ pc[p] = "observe"
    /\ oneshot[p] = <<"none">>
    /\ pc' = [pc EXCEPT ![p] = "signal_completed"]
    /\ UNCHANGED <<n, seq, counters, topic, participants, watcher,
                   eventStream, feedClosed, oneshot, sendCount, queries, metric, recvErr, success>>
    /\ UNCHANGED <<now, startedUpAt, emittedAt, elapsed, crashedAt>>

\* receiver.await is Ok(socket_addr): the elapsed time is recorded
ObserveOk(p) ==
    /\ pc[p] = "observe"
    /\ oneshot[p][1] = "ok"
    /\ metric' = [metric EXCEPT ![p] = TRUE]
    /\ pc' = [pc EXCEPT ![p] = "signal_completed"]
    /\ UNCHANGED <<n, seq, counters, topic, participants, watcher,
                   eventStream, feedClosed, oneshot, sendCount, queries, recvErr, success>>
    /\ elapsed' = [elapsed EXCEPT ![p] = now - startedUpAt[p]]
    /\ UNCHANGED <<now, startedUpAt, emittedAt, crashedAt>>

AfterRecvErrorFatal == "failed"

\* Err(e) => error!("RecvError: {e}"), and run() goes on
AfterRecvError == "signal_completed"

\* receiver.await is Err(RecvError): the sender was dropped
ObserveErr(p) ==
    /\ pc[p] = "observe"
    /\ oneshot[p] = <<"closed">>
    /\ recvErr' = [recvErr EXCEPT ![p] = TRUE]
    /\ pc' = [pc EXCEPT ![p] = AfterRecvError]
    /\ UNCHANGED <<n, seq, counters, topic, participants, watcher,
                   eventStream, feedClosed, oneshot, sendCount, queries, metric, success>>
    /\ UNCHANGED <<now, startedUpAt, emittedAt, elapsed, crashedAt>>

\* signal_and_wait(STATE_COMPLETED, ..): the signal
SignalCompleted(p) ==
    /\ pc[p] = "signal_completed"
    /\ counters' = Signal(STATE_COMPLETED)
    /\ pc' = [pc EXCEPT ![p] = "wait_completed"]
    /\ UNCHANGED <<n, seq, topic, participants, watcher, eventStream,
                   feedClosed, oneshot, sendCount, queries,
                   metric, recvErr, success>>
    /\ UNCHANGED <<now, startedUpAt, emittedAt, elapsed, crashedAt>>

WaitCompletedEarly(p) ==
    /\ pc[p] = "wait_completed"
    /\ pc' = [pc EXCEPT ![p] = "success"]
    /\ UNCHANGED <<n, seq, counters, topic, participants, watcher,
                   eventStream, feedClosed, oneshot, sendCount, queries,
                   metric, recvErr, success, now, startedUpAt, emittedAt,
                   elapsed, crashedAt>>

\* signal_and_wait(STATE_COMPLETED, ..): the barrier
WaitCompleted(p) ==
    /\ pc[p] = "wait_completed"
    /\ BarrierReached(STATE_COMPLETED)
    /\ pc' = [pc EXCEPT ![p] = "success"]
    /\ UNCHANGED <<n, seq, counters, topic, participants, watcher,
                   eventStream, feedClosed, oneshot, sendCount, queries, metric, recvErr, success>>
    /\ UNCHANGED <<now, startedUpAt, emittedAt, elapsed, crashedAt>>

\* client.record_success(), Ok(())
RecordSuccess(p) ==
    /\ pc[p] = "success"
    /\ success' = [success EXCEPT ![p] = TRUE]
    /\ pc' = [pc EXCEPT ![p] = "done"]
    /\ UNCHANGED <<n, seq, counters, topic, participants, watcher,
                   eventStream, feedClosed, oneshot, sendCount, queries, metric, recvErr>>
    /\ UNCHANGED <<now, startedUpAt, emittedAt, elapsed, crashedAt>>

\* ------------------------------------------------------ the watcher task
AfterSendNoBreak == "running"

\* break after sender.send(socket_addr).unwrap()
AfterSend == "sent"

\* event_stream.recv() is Some(event)
WatcherRecv(p) ==
    /\ watcher[p] = "running"
    /\ eventStream[p] # <<>>
    /\ LET event == Head(eventStream[p])
       IN IF event.type = "SocketUpdated"
          THEN /\ sendCount' = [sendCount EXCEPT ![p] = @ + 1]
               /\ oneshot' = [oneshot EXCEPT ![p] =
                      IF @ = <<"empty">> THEN <<"ok", event.addr>> ELSE @]
               /\ watcher' = [watcher EXCEPT ![p] = AfterSend]
          ELSE UNCHANGED <<sendCount, oneshot, watcher>>
    /\ eventStream' = [eventStream EXCEPT ![p] = Tail(@)]
    /\ UNCHANGED <<n, pc, seq, counters, topic, participants, feedClosed,
                   queries, metric, recvErr, success>>
    /\ UNCHANGED <<now, startedUpAt, emittedAt, elapsed, crashedAt>>

\* event_stream.recv() is None: the loop ends and the sender is dropped
WatcherEnd(p) ==
    /\ watcher[p] = "running"
    /\ eventStream[p] = <<>>
    /\ feedClosed[p]
    /\ watcher' = [watcher EXCEPT ![p] = "ended"]
    /\ oneshot' = [oneshot EXCEPT ![p] = IF @ = <<"empty">> THEN <<"closed">> ELSE @]
    /\ UNCHANGED <<n, pc, seq, counters, topic, participants, eventStream,
                   feedClosed, sendCount, queries, metric,
                   recvErr, success>>
    /\ UNCHANGED <<now, startedUpAt, emittedAt, elapsed, crashedAt>>

\* ---------------------------------------------------- the Discv5 engine
\* the engine emits an event into the event stream the watcher holds (an
\* event emitted while no receiver is subscribed is dropped by the engine and
\* changes nothing)
EmitEvent(p, event) ==
    /\ watcher[p] = "running"
    /\ ~feedClosed[p]
    /\ Len(eventStream[p]) < MaxEvents
    /\ eventStream' = [eventStream EXCEPT ![p] = Append(@, event)]
    /\ UNCHANGED <<n, pc, seq, counters, topic, participants, watcher,
                   feedClosed, oneshot, sendCount, queries, metric,
                   recvErr, success>>
    /\ emittedAt' = [emittedAt EXCEPT ![p] =
           IF event.type = "SocketUpdated" /\ @ = -1 THEN now ELSE @]
    /\ UNCHANGED <<now, startedUpAt, elapsed, crashedAt>>

\* the event stream of a subscribed watcher ends
CloseFeed(p) ==
    /\ watcher[p] = "running"
    /\ ~feedClosed[p]
    /\ feedClosed' = [feedClosed EXCEPT ![p] = TRUE]
    /\ UNCHANGED <<n, pc, seq, counters, topic, participants, watcher,
                   eventStream, oneshot, sendCount, queries,
                   metric, recvErr, success>>
    /\ UNCHANGED <<now, startedUpAt, emittedAt, elapsed, crashedAt>>

\* ------------------------------------------------------- specification
Next ==
    \/ \E p \in Procs : GetInstanceSeq(p)
    \/ \E p \in Procs : ConfigureNetwork(p)
    \/ \E p \in Procs : BarrierNetworkConfigured(p)
    \/ \E p \in Procs : Construct(p)
    \/ \E p \in Procs : Publish(p)
    \/ \E p \in Procs : Collect(p)
    \/ \E p \in Procs : CollectError(p)
    \/ \E p \in Procs : MaybeStartWatcher(p)
    \/ \E p \in Procs : \E ok \in BOOLEAN : FanOutQuery(p, ok)
    \/ \E p \in Procs : SignalEstablished(p)
    \/ \E p \in Procs : WaitEstablished(p)
    \/ \E p \in Procs : ObserveNone(p)
    \/ \E p \in Procs : ObserveOk(p)
    \/ \E p \in Procs : ObserveErr(p)
    \/ \E p \in Procs : SignalCompleted(p)
    \/ \E p \in Procs : WaitCompleted(p)
    \/ \E p \in Procs : RecordSuccess(p)
    \/ \E p \in Procs : WatcherRecv(p)
    \/ \E p \in Procs : WatcherEnd(p)
    \/ \E p \in Procs : \E event \in Events : EmitEvent(p, event)
    \/ \E p \in Procs : CloseFeed(p)

Spec == Init /\ [][Next]_vars

\* ------------------------------------------------------------- fairness
\* a step of the main task of some instance, the topic feed delivering
MainStep ==
    \E p \in Procs :
        \/ GetInstanceSeq(p)
        \/ ConfigureNetwork(p)
        \/ BarrierNetworkConfigured(p)
        \/ Construct(p)
        \/ Publish(p)
        \/ Collect(p)
        \/ MaybeStartWatcher(p)
        \/ \E ok \in BOOLEAN : FanOutQuery(p, ok)
        \/ SignalEstablished(p)
        \/ WaitEstablished(p)
        \/ ObserveNone(p)
        \/ ObserveOk(p)
        \/ ObserveErr(p)
        \/ SignalCompleted(p)
        \/ WaitCompleted(p)
        \/ RecordSuccess(p)

\* a step of the watcher task of some instance
WatcherStep == \E p \in Procs : WatcherRecv(p) \/ WatcherEnd(p)

FeedEmits == \E p \in Procs : \E event \in Events : EmitEvent(p, event)

FeedCloses == \E p \in Procs : CloseFeed(p)

NextLive == MainStep \/ WatcherStep \/ FeedEmits \/ FeedCloses

\* no instance stops, the service delivers, every awaited call returns, the
\* tasks are scheduled, and a feed that has not yet produced the address
\* change ends
FairSpec ==
    /\ Init
    /\ [][NextLive]_vars
    /\ WF_vars(MainStep)
    /\ WF_vars(WatcherStep)
    /\ WF_vars(FeedCloses)

\* ------------------------------------------------------------ the clock
\* a task that can run without waiting for another process, the service or
\* the engine (scheduling delays are taken as zero)
Runnable(p) ==
    \/ watcher[p] = "running" /\ eventStream[p] # <<>>
    \/ pc[p] = "wait_ce" /\ BarrierReached(STATE_COMPLETED_ESTABLISH_CONNECTIONS)
    \/ pc[p] = "observe" /\ oneshot[p][1] \in {"ok", "closed"}

\* one second passes (Local::now() advances)
Tick ==
    /\ now < MaxTime
    /\ \A p \in Procs : ~Runnable(p)
    /\ now' = now + 1
    /\ UNCHANGED <<n, pc, seq, counters, topic, participants, watcher,
                   eventStream, feedClosed, oneshot, sendCount, queries,
                   metric, recvErr, success, startedUpAt, emittedAt, elapsed,
                   crashedAt>>

InitTime == Init /\ n = TimedInstances

SpecTime == InitTime /\ [][Next \/ Tick]_vars

\* ------------------------------------------------------------- crashes
\* an instance stops where it is (at most one instance of the run does);
\* its watcher task stops with it
Crash(p) ==
    /\ pc[p] \notin {"done", "failed", "crashed"}
    /\ \A q \in Procs : pc[q] # "crashed"
    /\ crashedAt' = [crashedAt EXCEPT ![p] = pc[p]]
    /\ pc' = [pc EXCEPT ![p] = "crashed"]
    /\ watcher' = [watcher EXCEPT ![p] = IF @ = "running" THEN "ended" ELSE @]
    /\ UNCHANGED <<n, seq, counters, topic, participants, eventStream,
                   feedClosed, oneshot, sendCount, queries, metric, recvErr,
                   success, now, startedUpAt, emittedAt, elapsed>>

SpecCrash == Init /\ [][Next \/ \E p \in Procs : Crash(p)]_vars

\* ------------------------------------------------------------ properties
Range(f) == {f[i] : i \in DOMAIN f}

\* the main task of p is beyond the step labelled l
Past(p, l) == Rank(pc[p]) > Rank(l)

\* C1: with N processes each calling publish_and_collect once with its own
\* (distinct) record and expected count N, every call that has returned
\* holds exactly N records, and they are the records of all N processes,
\* the caller's included - so all returned calls hold the same set.
C1_RendezvousSameSet ==
    \A p \in Procs :
        Past(p, "collect") =>
            /\ Len(participants[p]) = n
            /\ Range(participants[p]) = {InstanceInfo(q) : q \in Procs}
            /\ Cardinality(Range(participants[p])) = n
            /\ InstanceInfo(p) \in Range(participants[p])

C1_Witness ==
    /\ n = MaxInstances
    /\ \A p \in Procs : Past(p, "collect")
    /\ participants[1][1].seq # 1

\* C2: a process that is past a named barrier implies that this barrier's
\* counter is at least N, and that N processes have announced the name.
C2_BarrierNeedsAll ==
    \A p \in Procs :
        /\ Past(p, "wait_ce") =>
              /\ counters[STATE_COMPLETED_ESTABLISH_CONNECTIONS] >= n
              /\ Cardinality({q \in Procs : Past(q, "signal_ce")}) >= n
        /\ Past(p, "wait_completed") =>
              /\ counters[STATE_COMPLETED] >= n
              /\ Cardinality({q \in Procs : Past(q, "signal_completed")}) >= n

C2_Witness ==
    /\ n = MaxInstances
    /\ \E p \in Procs : pc[p] = "observe"
    /\ \E p \in Procs : pc[p] = "wait_ce"

\* C3: in any interleaving of the sequence requests, the values handed out
\* so far are exactly 1..k for k requests served: no value is given twice
\* and none is skipped; once all N processes are served they hold 1..N.
C3_SeqExactlyOneToN ==
    LET served == {p \in Procs : seq[p] # 0}
    IN /\ {seq[p] : p \in served} = 1..Cardinality(served)
       /\ \A p, q \in served : seq[p] = seq[q] => p = q
       /\ served = Procs => {seq[p] : p \in Procs} = 1..n

C3_Witness ==
    /\ n = MaxInstances
    /\ \A p \in Procs : seq[p] # 0
    /\ seq[1] = n

\* C4: no process is past the CONNECTIONS_ESTABLISHED barrier before the
\* coordinator has finished every fan-out query attempt; the coordinator
\* announces the barrier only once its fan-out loop has ended.
C4_BarrierAfterFanOut ==
    /\ \A c \in Procs :
          FanOutRole(c) /\ Past(c, "signal_ce") =>
              Len(queries[c]) = n - 1
    /\ \A p \in Procs :
          Past(p, "wait_ce") =>
              \E c \in Procs :
                  /\ FanOutRole(c)
                  /\ Past(c, "fanout")
                  /\ Len(queries[c]) = n - 1

C4_Witness ==
    /\ n = MaxInstances
    /\ \E p \in Procs : ~FanOutRole(p) /\ Past(p, "wait_ce")
    /\ \E c \in Procs : FanOutRole(c) /\ pc[c] = "wait_ce"

\* C5: a process announces CONNECTIONS_ESTABLISHED only after its own
\* rendezvous has collected all N records; so when any process is past that
\* barrier, every process of the run has completed its rendezvous.
C5_BarrierAfterRendezvous ==
    /\ \A p \in Procs :
          Past(p, "signal_ce") => Len(participants[p]) = n
    /\ \A p \in Procs :
          Past(p, "wait_ce") =>
              \A q \in Procs : Past(q, "collect") /\ Len(participants[q]) = n

C5_Witness ==
    /\ n = MaxInstances
    /\ \E p \in Procs : pc[p] = "wait_ce" /\ Len(participants[p]) = n
    /\ \E q \in Procs : pc[q] = "watcher"

\* C6: when the coordinator's event feed closes without an address-changed
\* event, receiving the watcher's result is not fatal: the run goes on to
\* announce COMPLETED, logs the RecvError diagnostic, records no elapsed-time
\* metric, and success remains reportable.
C6_FeedClosedNotFatal ==
    /\ [](\A p \in Procs :
            oneshot[p] = <<"closed">> =>
                /\ pc[p] # "failed"
                /\ ~metric[p]
                /\ Past(p, "observe") => recvErr[p])
    /\ [][\A p \in Procs :
            pc[p] = "observe" /\ oneshot[p] = <<"closed">> /\ pc'[p] # pc[p] =>
                pc'[p] = "signal_completed" /\ recvErr'[p] /\ ~metric'[p]]_vars

C6_Witness ==
    \E p \in Procs :
        /\ oneshot[p] = <<"closed">>
        /\ success[p]
        /\ recvErr[p]
        /\ ~metric[p]
        /\ pc[p] = "done"

\* C7: a failing directed query stops neither the remaining queries nor the
\* announcement of CONNECTIONS_ESTABLISHED: after each query, failed or not,
\* the coordinator goes on to the next peer or, after the last one, to the
\* announcement; once past the loop all N-1 peers have been queried.
C7_FanOutBestEffort ==
    /\ [](\A c \in Procs :
            /\ queries[c] # <<>> => pc[c] # "failed"
            /\ FanOutRole(c) /\ Past(c, "fanout") =>
                  {q.target.seq : q \in Range(queries[c])} = (1..n) \ {seq[c]})
    /\ [][\A c \in Procs :
            Len(queries'[c]) > Len(queries[c]) =>
                pc'[c] = IF Len(queries'[c]) < n - 1 THEN "fanout" ELSE "signal_ce"]_vars

C7_Witness ==
    \E c \in Procs :
        /\ n = MaxInstances
        /\ Len(queries[c]) = n - 1
        /\ ~queries[c][1].ok
        /\ Past(c, "signal_ce")

C9_WatcherBeforeQueries ==
    \A p \in Procs :
        pc[p] = "fanout" \/ queries[p] # <<>> => watcher[p] # "none"

C9_Witness ==
    \E p \in Procs :
        /\ Len(queries[p]) = 1
        /\ pc[p] = "fanout"
        /\ watcher[p] = "running"

\* C10: the watcher calls send at most once; when it has stopped it has
\* delivered exactly one result through the oneshot channel - the address
\* of the first SocketUpdated event it received, or the closing of the
\* channel when the feed ended first - and a delivered result never changes,
\* whatever events are queued behind the first address change.
C10_DeliversOnce ==
    /\ [](\A p \in Procs :
            /\ sendCount[p] <= 1
            /\ watcher[p] = "none" => oneshot[p] = <<"none">>
            /\ watcher[p] = "running" => oneshot[p] = <<"empty">> /\ sendCount[p] = 0
            /\ watcher[p] = "sent" => oneshot[p][1] = "ok" /\ sendCount[p] = 1
            /\ watcher[p] = "ended" => oneshot[p] = <<"closed">> /\ sendCount[p] = 0)
    /\ [][\A p \in Procs :
            /\ sendCount'[p] # sendCount[p] =>
                  /\ Head(eventStream[p]).type = "SocketUpdated"
                  /\ oneshot'[p] = <<"ok", Head(eventStream[p]).addr>>
            /\ oneshot[p][1] \in {"ok", "closed"} => oneshot'[p] = oneshot[p]]_vars

C10_Witness ==
    \E p \in Procs :
        /\ watcher[p] = "sent"
        /\ sendCount[p] = 1
        /\ eventStream[p] # <<>>
        /\ Head(eventStream[p]).type = "SocketUpdated"
        /\ Head(eventStream[p]).addr # oneshot[p][2]

\* C11: when the engine emits the address-changed event T seconds after the
\* coordinator started, the elapsed metric the coordinator reports equals T,
\* regardless of when the other processes reach CONNECTIONS_ESTABLISHED.
C11_ElapsedEqualsT ==
    \A p \in Procs :
        metric[p] => elapsed[p] = emittedAt[p] - startedUpAt[p]

\* C12: when the topic feed ends or yields an error before N records have
\* arrived, publish_and_collect returns no record set: the process leaves the
\* call only by failing, stays failed, announces no later barrier and
\* reports no success.
C12_FeedErrorFatal ==
    /\ [](/\ \A p \in Procs :
                pc[p] = "failed" =>
                    /\ participants[p] = <<>>
                    /\ ~success[p]
                    /\ watcher[p] = "none"
                    /\ queries[p] = <<>>
          /\ counters[STATE_COMPLETED_ESTABLISH_CONNECTIONS]
                = Cardinality({q \in Procs : Past(q, "signal_ce")})
          /\ counters[STATE_COMPLETED]
                = Cardinality({q \in Procs : Past(q, "signal_completed")}))
    /\ [][\A p \in Procs :
            /\ pc[p] = "collect" /\ pc'[p] # "collect" /\ Len(topic) < n =>
                  pc'[p] = "failed" /\ participants'[p] = <<>>
            /\ pc[p] = "failed" => pc'[p] = "failed"]_vars

C12_Witness ==
    /\ n = MaxInstances
    /\ \E p \in Procs : pc[p] = "failed" /\ Len(topic) < n
    /\ \E q \in Procs : pc[q] = "collect"

\* C13: when one of the N processes stops before publishing its record or
\* before announcing a barrier, no process ever gets past that rendezvous or
\* barrier, and none reports success: nothing in the run releases them.
C13_CrashBlocksAll ==
    \A q \in Procs :
        pc[q] = "crashed" =>
            /\ Rank(crashedAt[q]) <= Rank("configure") =>
                  \A p \in Procs : ~Past(p, "barrier_nc")
            /\ Rank(crashedAt[q]) <= Rank("publish") =>
                  \A p \in Procs : ~Past(p, "collect")
            /\ Rank(crashedAt[q]) <= Rank("signal_ce") =>
                  \A p \in Procs : ~Past(p, "wait_ce")
            /\ Rank(crashedAt[q]) <= Rank("signal_completed") =>
                  \A p \in Procs : ~Past(p, "wait_completed") /\ ~success[p]

C13_Witness ==
    /\ n = MaxInstances
    /\ \E q \in Procs :
          /\ pc[q] = "crashed"
          /\ crashedAt[q] = "signal_ce"
          /\ \A p \in Procs \ {q} : pc[p] = "wait_ce"

\* C14: a process reports success only after the COMPLETED barrier is
\* satisfied, that is after all N processes have announced COMPLETED; and
\* once it is past the barrier its next step reports success, whether or not
\* the address-observation metric was obtained.
C14_SuccessAfterCompleted ==
    /\ [](\A p \in Procs :
            success[p] \/ Past(p, "wait_completed") =>
                /\ counters[STATE_COMPLETED] >= n
                /\ \A q \in Procs : Past(q, "signal_completed"))
    /\ [][\A p \in Procs :
            /\ pc[p] = "wait_completed" /\ pc'[p] # pc[p] => pc'[p] = "success"
            /\ pc[p] = "success" /\ pc'[p] # pc[p] =>
                  success'[p] /\ metric'[p] = metric[p]]_vars

C14_Witness ==
    /\ n = MaxInstances
    /\ \A p \in Procs : success[p]
    /\ \E c \in Procs : seq[c] = 1 /\ ~metric[c]

\* C15: the directed queries of a run are exactly one query from the
\* coordinator to each collected peer whose seq differs from its own, N-1 in
\* total: never to itself, never twice to a peer; a participant issues no
\* query and starts no watcher.
C15_FanOutExactlyPeers ==
    \A p \in Procs :
        LET targets == [k \in 1..Len(queries[p]) |-> queries[p][k].target]
        IN /\ \A k \in 1..Len(targets) : targets[k].seq # seq[p]
           /\ \A j, k \in 1..Len(targets) : targets[j] = targets[k] => j = k
           /\ Range(targets) \subseteq Range(participants[p])
           /\ seq[p] # 1 =>
                 queries[p] = <<>> /\ watcher[p] = "none" /\ oneshot[p] = <<"none">>
           /\ seq[p] = 1 /\ Past(p, "fanout") =>
                 /\ Len(queries[p]) = n - 1
                 /\ Range(targets) = {i \in Range(participants[p]) : i.seq # seq[p]}

C15_Witness ==
    \E c \in Procs :
        /\ n = MaxInstances
        /\ seq[c] = 1
        /\ pc[c] = "signal_ce"
        /\ Len(queries[c]) = n - 1
        /\ participants[c][2].seq = 1

\* C16: every process announces the named barriers in the same order
\* (network configured, connections established, completed), each name
\* once: a counter is the number of processes that have announced it and
\* never exceeds N, and no process is past a later barrier before all N
\* processes are past the earlier one.
C16_BarrierOrder ==
    /\ \A s \in StateNames : counters[s] <= n
    /\ counters[STATE_NETWORK_CONFIGURED]
          = Cardinality({q \in Procs : Past(q, "configure") \/ pc[q] = "failed"})
    /\ counters[STATE_COMPLETED_ESTABLISH_CONNECTIONS]
          = Cardinality({q \in Procs : Past(q, "signal_ce")})
    /\ counters[STATE_COMPLETED]
          = Cardinality({q \in Procs : Past(q, "signal_completed")})
    /\ \A p \in Procs :
          /\ Past(p, "signal_ce") => \A q \in Procs : Past(q, "configure") \/ pc[q] = "failed"
          /\ Past(p, "wait_ce") => \A q \in Procs : Past(q, "barrier_nc")
          /\ Past(p, "wait_completed") => \A q \in Procs : Past(q, "wait_ce")

C16_Witness ==
    /\ n = MaxInstances
    /\ \A p \in Procs : pc[p] = "done"
    /\ \A s \in StateNames : counters[s] = n

\* C17: collect_instance_info returns the rendezvous result without the
\* caller's own record: with N collected records of seq 1..N, the result has
\* N-1 records, none with the caller's seq, and the record of every other
\* process exactly once.
C17_OwnRecordRemoved ==
    \A p \in Procs :
        Past(p, "collect") =>
            LET info == CollectInstanceInfo(participants[p], seq[p])
            IN /\ Len(info) = n - 1
               /\ \A k \in 1..Len(info) : info[k].seq # seq[p]
               /\ \A q \in Procs \ {p} :
                     Cardinality({k \in 1..Len(info) : info[k] = InstanceInfo(q)}) = 1

C17_Witness ==
    /\ n = MaxInstances
    /\ \E p \in Procs :
          /\ Past(p, "collect")
          /\ Position(participants[p], seq[p]) = 2
          /\ Len(CollectInstanceInfo(participants[p], seq[p])) = 2

\* C18: a run has exactly one coordinator, the process whose seq is 1: the
\* self-addressed identity, the watcher, the fan-out and the address
\* observation occur on that process and on no other.
C18_OneCoordinator ==
    /\ Cardinality({p \in Procs : IsBootstrap(p)}) <= 1
    /\ counters[GET_INSTANCE_SEQ] >= 1 =>
          Cardinality({p \in Procs : IsBootstrap(p)}) = 1
    /\ \A k \in 1..Len(topic) :
          FromJson(topic[k]).enr.ip4 = 0 <=> FromJson(topic[k]).seq = 1
    /\ \A p \in Procs :
          /\ \/ watcher[p] # "none"
             \/ oneshot[p] # <<"none">>
             \/ queries[p] # <<>>
             \/ metric[p]
             \/ recvErr[p]
             \/ emittedAt[p] # -1
             => IsBootstrap(p)
          /\ IsBootstrap(p) /\ Past(p, "watcher") => watcher[p] # "none"
          /\ IsBootstrap(p) /\ Past(p, "fanout") => Len(queries[p]) = n - 1
          /\ IsBootstrap(p) /\ Past(p, "observe") => metric[p] \/ recvErr[p]

C18_Witness ==
    /\ n = MaxInstances
    /\ seq[n] = 1
    /\ pc[n] = "signal_completed"
    /\ metric[n]
    /\ \A p \in Procs \ {n} : pc[p] = "signal_completed" /\ ~metric[p]

\* C19: while the coordinator's watcher has delivered no result (the feed
\* is open and has shown no address change), the coordinator is not past the
\* address observation, COMPLETED is not satisfied, and no process of the run
\* is past the COMPLETED barrier or has reported success.
C19_NoResultNoCompletion ==
    /\ \A c \in Procs :
          IsBootstrap(c) /\ oneshot[c][1] \in {"none", "empty"} =>
              /\ ~Past(c, "observe")
              /\ counters[STATE_COMPLETED] < n
              /\ \A p \in Procs : ~Past(p, "wait_completed") /\ ~success[p]
    /\ (\E p \in Procs : success[p]) =>
          \E c \in Procs : IsBootstrap(c) /\ oneshot[c][1] \in {"ok", "closed"}

C19_Witness ==
    /\ n = MaxInstances
    /\ \E c \in Procs :
          /\ IsBootstrap(c)
          /\ pc[c] = "observe"
          /\ oneshot[c] = <<"empty">>
          /\ ~feedClosed[c]
          /\ eventStream[c] = <<>>
          /\ \A p \in Procs \ {c} : pc[p] = "wait_completed"

\* C20: if no process stops, the service delivers every record and
\* announcement, every query returns and the coordinator's feed eventually
\* emits an address change or closes, then eventually every one of the N
\* processes is past the COMPLETED barrier and has reported success.
C20_AllSucceed ==
    <>(\A p \in Procs : success[p] /\ pc[p] = "done")

C20_Witness ==
    /\ n = MaxInstances
    /\ \A p \in Procs : success[p] /\ pc[p] = "done"
    /\ \E c \in Procs : metric[c] /\ \E k \in 1..Len(queries[c]) : ~queries[c][k].ok

====
